---- MODULE Spec2Model ----
(***************************************************************************)
(* Model of the document structure compiler of aimrbru/sasp                *)
(* (docs/scripts/builders/gost_shared.py, build_docs.py): the validator,   *)
(* the TOC collector / numbering allocator, the section emitter and the    *)
(* placeholder resolver.                                                   *)
(*                                                                         *)
(* A template's section tree is held as the sequence of its nodes in       *)
(* document (pre-)order; every node carries its structural depth, so the   *)
(* children of node i are the nodes of depth t[i].depth + 1 that follow i  *)
(* before the next node of depth <= t[i].depth.                            *)
(***************************************************************************)
EXTENDS Integers, Sequences, FiniteSets, TLC

\* ------------------------------------------------------------------ bounds
MaxNodes == 3
MaxBlocks == 2
MaxBuilds == 2
MaxBlockNodes == 2
MaxItems == 3

\* ------------------------------------------------------------ small helpers
Last(s) == s[Len(s)]

\* ------------------------------------------------------------------- texts
\* A text is a sequence of tokens: a literal word, a run of whitespace, or a
\* placeholder {{ path }}.  path is the placeholder's inner string split at
\* '.', each part a key with an optional [index].
Lit(s) == [t |-> "lit", s |-> s, p |-> <<>>]
Space == [t |-> "ws", s |-> " ", p |-> <<>>]
Ph(path) == [t |-> "ph", s |-> "", p |-> path]
\* ix: "none" for a plain key, "int" for key[idx], "nan" for key[...] whose
\* bracket content is no integer literal.
Part(k) == [key |-> k, ix |-> "none", idx |-> 0]
PartIdx(k, n) == [key |-> k, ix |-> "int", idx |-> n]
PartNaN(k) == [key |-> k, ix |-> "nan", idx |-> 0]

ImageCounterNext == Ph(<<Part("image_counter_next")>>)
TableCounterNext == Ph(<<Part("table_counter_next")>>)

Title == <<Lit("T")>>

\* str.strip(): leading and trailing whitespace removed.
RECURSIVE LStrip(_)
LStrip(x) == IF x # <<>> /\ Head(x).t = "ws" THEN LStrip(Tail(x)) ELSE x

RECURSIVE RStrip(_)
RStrip(x) == IF x # <<>> /\ Last(x).t = "ws" THEN RStrip(SubSeq(x, 1, Len(x) - 1)) ELSE x

Strip(x) == RStrip(LStrip(x))

\* re.sub(r'\s+', ' ', s): every run of whitespace becomes one space.
RECURSIVE CollapseWs(_)
CollapseWs(x) ==
    IF x = <<>> THEN <<>>
    ELSE IF Head(x).t = "ws"
         THEN <<Space>> \o CollapseWs(LStrip(Tail(x)))
         ELSE <<Head(x)>> \o CollapseWs(Tail(x))

\* text.replace(token, str(n)) for one of the two counter placeholders.
NumLit(n) == [t |-> "lit", s |-> ToString(n), p |-> <<>>]

ReplaceToken(x, tok, n) == [i \in 1..Len(x) |-> IF x[i] = tok THEN NumLit(n) ELSE x[i]]

Contains(x, tok) == \E i \in 1..Len(x) : x[i] = tok

\* ------------------------------------------------------------- data values
\* The merged YAML data: mappings, lists, strings, numbers and null.  A string
\* value is the sequence of its atoms (a key is "in" the string when it is one
\* of the atoms, Python's substring test at the grain of the model).
NoMap == [k \in {} |-> 0]
VNull == [t |-> "null", s |-> <<>>, n |-> 0, l |-> <<>>, m |-> NoMap]
VStr(a) == [t |-> "str", s |-> a, n |-> 0, l |-> <<>>, m |-> NoMap]
VNum(k) == [t |-> "num", s |-> <<>>, n |-> k, l |-> <<>>, m |-> NoMap]
VList(l) == [t |-> "list", s |-> <<>>, n |-> 0, l |-> l, m |-> NoMap]
VMap(m) == [t |-> "map", s |-> <<>>, n |-> 0, l |-> <<>>, m |-> m]

\* Outcome of a lookup: a value, None, or an exception leaving the function.
Found(v) == [st |-> "ok", v |-> v]
None == [st |-> "none", v |-> VNull]
Raise == [st |-> "raise", v |-> VNull]

\* Python's `key in current` for each type current can have.
KeyIn(cur, key) ==
    CASE cur.t = "map" -> IF key \in DOMAIN cur.m THEN "yes" ELSE "no"
      [] cur.t = "str" -> IF \E i \in 1..Len(cur.s) : cur.s[i] = key THEN "yes" ELSE "no"
      [] cur.t = "list" ->
            IF \E i \in 1..Len(cur.l) : cur.l[i].t = "str" /\ cur.l[i].s = <<key>>
            THEN "yes" ELSE "no"
      [] OTHER -> "raise"

\* Python's `current[key]` with a string key: defined on mappings only.
Subscript(cur, key) == IF cur.t = "map" THEN Found(cur.m[key]) ELSE Raise

\* key_part[idx] once the key is known to hold a value: a list long enough
\* is indexed (Python's negative indices included), anything else is a miss.
IndexInto(v, idx) ==
    IF v.t = "list" /\ idx < Len(v.l)
    THEN IF idx >= 0 THEN Found(v.l[idx + 1])
         ELSE IF idx >= 0 - Len(v.l) THEN Found(v.l[Len(v.l) + idx + 1])
         ELSE Raise
    ELSE None

AfterSubscript(g, part) ==
    IF g.st # "ok" \/ part.ix = "none" THEN g ELSE IndexInto(g.v, part.idx)

AfterKeyIn(h, cur, part) ==
    CASE h = "raise" -> Raise
      [] h = "no" -> None
      [] OTHER -> AfterSubscript(Subscript(cur, part.key), part)

\* One iteration of the loop of get_nested_value.
StepPart(cur, part) ==
    IF part.ix = "nan" THEN Raise ELSE AfterKeyIn(KeyIn(cur, part.key), cur, part)

RECURSIVE WalkPath(_, _)
WalkRest(r, parts) == IF r.st # "ok" THEN r ELSE WalkPath(r.v, parts)

WalkPath(cur, parts) ==
    IF parts = <<>> THEN Found(cur) ELSE WalkRest(StepPart(cur, Head(parts)), Tail(parts))

\* The 'value' convention applied to the value the path led to.
UnwrapValue(r) ==
    IF r.st = "ok" /\ r.v.t = "map" /\ "value" \in DOMAIN r.v.m
    THEN Found(r.v.m["value"]) ELSE r

\* GOSTDataProcessor.get_nested_value
get_nested_value(d, path) == UnwrapValue(WalkPath(d, path))

\* str(value) as tokens of the result text.
StrOf(v) ==
    CASE v.t = "str" -> [i \in 1..Len(v.s) |-> Lit(v.s[i])]
      [] v.t = "num" -> <<NumLit(v.n)>>
      [] v.t = "list" -> <<Lit("[...]")>>
      [] v.t = "map" -> <<Lit("{...}")>>
      [] OTHER -> <<Lit("None")>>

\* The closure replace(match): the text one token is replaced by.
ReplaceMatch(tok, r) ==
    IF tok.t # "ph" THEN [st |-> "ok", x |-> <<tok>>]
    ELSE IF r.st = "raise" THEN [st |-> "raise", x |-> <<>>]
    ELSE IF r.st = "none" \/ r.v.t = "null" THEN [st |-> "ok", x |-> <<>>]
    ELSE [st |-> "ok", x |-> StrOf(r.v)]

Joined(a, b) ==
    IF a.st = "raise" \/ b.st = "raise" THEN [st |-> "raise", x |-> <<>>]
    ELSE [st |-> "ok", x |-> a.x \o b.x]

\* re.sub over the tokens of the text, left to right.
RECURSIVE SubstAll(_, _)
SubstAll(x, d) ==
    IF x = <<>> THEN [st |-> "ok", x |-> <<>>]
    ELSE Joined(ReplaceMatch(Head(x), IF Head(x).t = "ph"
                                      THEN get_nested_value(d, Head(x).p) ELSE None),
                SubstAll(Tail(x), d))

Collapsed(r) == IF r.st = "ok" THEN [st |-> "ok", x |-> CollapseWs(r.x)] ELSE r

\* GOSTDataProcessor.replace_placeholders: st = "raise" when an exception
\* leaves the function, else x is the returned string.
replace_placeholders(x, d) ==
    IF x = <<>> THEN [st |-> "ok", x |-> <<>>] ELSE Collapsed(SubstAll(Strip(x), d))

\* ------------------------------------------------------------ section tree
\* A node: depth (structural nesting, 0 for the entries of template.sections),
\* id ("" when the key is absent), name, key (which children array the node
\* carries: "subsections", "points", "subpoints" or "none"), hasBlocks (the
\* 'blocks' key is present) and blocks.
\* name.k: "absent" (no 'name' key), "null", "str" (x is the text), "num".
NameAbsent == [k |-> "absent", x |-> <<>>]
NameNull == [k |-> "null", x |-> <<>>]
NameStr(x) == [k |-> "str", x |-> x]
NameNum == [k |-> "num", x |-> <<>>]

\* A content block: k is the first of the keys text, list, table, image,
\* page_break the mapping carries ("str" for a bare string, "scalar" for any
\* other non-mapping, "list_scalar" for a 'list' key whose value is no
\* mapping); typed records that the block's inner mapping has been given a
\* 'type' key.
Block(k, x) == [k |-> k, x |-> x, items |-> <<>>, style |-> "", typed |-> FALSE]
ListBlock(style, items) ==
    [k |-> "list", x |-> <<>>, items |-> items, style |-> style, typed |-> FALSE]

Node(d, id, name, key, hasBlocks, blocks) ==
    [depth |-> d, id |-> id, name |-> name, key |-> key,
     hasBlocks |-> hasBlocks, blocks |-> blocks]

ServiceIds == {"title_page", "table_of_contents", "appendices"}

\* Last position of the subtree rooted at i.
RECURSIVE SubtreeEnd(_, _, _)
SubtreeEnd(t, i, j) ==
    IF j < Len(t) /\ t[j + 1].depth > t[i].depth THEN SubtreeEnd(t, i, j + 1) ELSE j

NextSibling(t, i) == SubtreeEnd(t, i, i) + 1

\* Positions of the entries of the children array of node i, in array order.
RECURSIVE SiblingsFrom(_, _, _)
SiblingsFrom(t, j, d) ==
    IF j <= Len(t) /\ t[j].depth = d
    THEN <<j>> \o SiblingsFrom(t, NextSibling(t, j), d)
    ELSE <<>>

Children(t, i) == SiblingsFrom(t, i + 1, t[i].depth + 1)

TopLevel(t) == SiblingsFrom(t, 1, 0)

\* Position of the parent of node i (0 for a top-level node).
RECURSIVE ParentFrom(_, _, _)
ParentFrom(t, i, j) ==
    IF j = 0 THEN 0
    ELSE IF t[j].depth = t[i].depth - 1 THEN j
    ELSE ParentFrom(t, i, j - 1)


\* enumerate(nodes): 0-based index of node i in the array that holds it.
RECURSIVE IndexFrom(_, _, _)
IndexFrom(t, i, j) ==
    IF j = 0 \/ t[j].depth < t[i].depth THEN 0
    ELSE IF t[j].depth = t[i].depth THEN 1 + IndexFrom(t, i, j - 1)
    ELSE IndexFrom(t, i, j - 1)

IndexInArray(t, i) == IndexFrom(t, i, i - 1)

\* --------------------------------------------------------------- validator
\* A message of the validator: kind names the f-string that builds it, id and
\* path are the values interpolated into it.
Msg(kind, id, path) == [kind |-> kind, id |-> id, path |-> path]

\* Mutant: the name is tested without strip().
NameBlank_NoStrip(name) ==
    \/ name.k \in {"absent", "null"}
    \/ name.k = "str" /\ name.x = <<>>

\* name is None or str(name).strip() == ""
NameBlank(name) ==
    \/ name.k \in {"absent", "null"}
    \/ name.k = "str" /\ Strip(name.x) = <<>>

\* name or node_id or "?"
PathLabel(n) ==
    IF n.name.k = "num" \/ (n.name.k = "str" /\ n.name.x # <<>>)
    THEN [name |-> n.name.x, id |-> ""]
    ELSE [name |-> <<>>, id |-> IF n.id # "" THEN n.id ELSE "?"]

\* The block loop of _walk over blocks[b..].
RECURSIVE WalkBlocks(_, _, _, _)
WalkBlocks(blocks, b, id, acc) ==
    IF b > Len(blocks) THEN acc
    ELSE LET blk == blocks[b] IN
         WalkBlocks(blocks, b + 1, id,
            CASE blk.k \in {"str", "scalar"} ->
                    [acc EXCEPT !.errors = Append(@, Msg("bad_block", id, <<>>))]
              [] blk.k = "text" /\ Strip(blk.x) = <<>> ->
                    [acc EXCEPT !.warnings = Append(@, Msg("empty_text", id, <<>>))]
              [] blk.k = "list_scalar" ->
                    [acc EXCEPT !.errors = Append(@, Msg("bad_list", id, <<>>))]
              [] blk.k = "list" /\ blk.items = <<>> ->
                    [acc EXCEPT !.warnings = Append(@, Msg("empty_list", id, <<>>))]
              [] OTHER -> acc)

RECURSIVE WalkNode(_, _, _, _, _)
RECURSIVE WalkNodes(_, _, _, _, _)
\* Mutant: only the id seen last is remembered.
WalkNode_LastIdOnly(t, i, path, level, acc) ==
    LET n == t[i]
        a1 == IF n.id # ""
              THEN [acc EXCEPT
                      !.errors = IF n.id \in acc.seen
                                 THEN Append(@, Msg("duplicate_id", n.id, <<>>)) ELSE @,
                      !.seen = {n.id}]
              ELSE acc
        a2 == IF n.id # "intro" /\ NameBlank(n.name)
              THEN [a1 EXCEPT !.errors = Append(@, Msg("missing_title", n.id, path))]
              ELSE a1
        kids == IF n.key # "none" THEN Children(t, i) ELSE <<>>
        a3 == IF kids # <<>> /\ level >= 2 /\ Len(kids) = 1
              THEN [a2 EXCEPT !.warnings = Append(@, Msg("single_point", n.id, <<PathLabel(n)>>))]
              ELSE a2
        a4 == WalkNodes(t, kids, Append(path, PathLabel(n)), level + 1, a3)
    IN IF n.hasBlocks /\ n.blocks # <<>> THEN WalkBlocks(n.blocks, 1, n.id, a4) ELSE a4

\* GOSTValidator._walk on node i.
WalkNode(t, i, path, level, acc) ==
    LET n == t[i]
        a1 == IF n.id # ""
              THEN [acc EXCEPT
                      !.errors = IF n.id \in acc.seen
                                 THEN Append(@, Msg("duplicate_id", n.id, <<>>)) ELSE @,
                      !.seen = @ \cup {n.id}]
              ELSE acc
        a2 == IF n.id # "intro" /\ NameBlank(n.name)
              THEN [a1 EXCEPT !.errors = Append(@, Msg("missing_title", n.id, path))]
              ELSE a1
        kids == IF n.key # "none" THEN Children(t, i) ELSE <<>>
        a3 == IF kids # <<>> /\ level >= 2 /\ Len(kids) = 1
              THEN [a2 EXCEPT !.warnings = Append(@, Msg("single_point", n.id, <<PathLabel(n)>>))]
              ELSE a2
        a4 == WalkNodes(t, kids, Append(path, PathLabel(n)), level + 1, a3)
    IN IF n.hasBlocks /\ n.blocks # <<>> THEN WalkBlocks(n.blocks, 1, n.id, a4) ELSE a4

WalkNodes(t, ps, path, level, acc) ==
    IF ps = <<>> THEN acc
    ELSE WalkNodes(t, Tail(ps), path, level, WalkNode(t, Head(ps), path, level, acc))

\* ------------------------------------------------------------------- state
VARIABLES
    tree,                 \* template['sections'] of the builder
    doc_type,             \* GOSTTOCGenerator.doc_type / GOSTSectionProcessor.doc_type
    max_levels,           \* GOSTTOCGenerator.max_levels
    max_toc_levels,       \* toc_settings.max_levels of the configuration
    data,                 \* GOSTDataProcessor.data
    calls,                \* how many times the driver calls generate()
    builds,               \* generate() calls made so far
    pc,                   \* where the build is
    errors, warnings, seen_ids,                       \* GOSTValidator
    toc_entries, id_to_entry, node_numbers,           \* GOSTTOCGenerator
    toc_bookmark_counter, section_counter,
    ci, cnums,            \* collector: next node, parent_numbers of each level
    table_counter, image_counter, images,             \* GOSTSectionProcessor
    out,                  \* xml_parts, as abstract instructions
    ei, elev,             \* emitter: next node, level of each open ancestor
    text, resolved        \* argument and result of a direct replace_placeholders call

vars == <<tree, doc_type, max_levels, max_toc_levels, data, calls, builds, pc, errors, warnings, seen_ids,
          toc_entries, id_to_entry, node_numbers, toc_bookmark_counter,
          section_counter, ci, cnums, table_counter, image_counter, images, out, ei, elev, text, resolved>>

tocVars == <<toc_entries, id_to_entry, node_numbers, toc_bookmark_counter, section_counter,
             ci, cnums>>
procVars == <<table_counter, image_counter, images, out, ei, elev>>
valVars == <<errors, warnings, seen_ids>>
cfgVars == <<doc_type, max_levels, max_toc_levels, data, calls, text, resolved>>

NoEntries == [k \in {} |-> 0]

\* Mutant: the walk starts from the lists and the ids of the call before.
validate_NoClear(t) ==
    IF t = <<>>
    THEN [errors |-> Append(errors, Msg("no_sections", "", <<>>)), warnings |-> warnings,
          seen |-> seen_ids]
    ELSE WalkNodes(t, TopLevel(t), <<>>, 1,
                   [errors |-> errors, warnings |-> warnings, seen |-> seen_ids])

\* GOSTValidator.validate: the lists are cleared, then filled by the walk.
validate(t) ==
    IF t = <<>>
    THEN [errors |-> <<Msg("no_sections", "", <<>>)>>, warnings |-> <<>>, seen |-> {}]
    ELSE WalkNodes(t, TopLevel(t), <<>>, 1, [errors |-> <<>>, warnings |-> <<>>, seen |-> {}])

\* ------------------------------------------------------- TOC generator ops
\* ".".join(str(num) for num in numbers)
RECURSIVE JoinDots(_)
\* Mutant: only the last component of a number is shown.
JoinDots_LastOnly(nums) ==
    IF nums = <<>> THEN <<>> ELSE <<ToString(nums[Len(nums)])>>

JoinDots(nums) ==
    IF nums = <<>> THEN <<>>
    ELSE IF Len(nums) = 1 THEN <<ToString(nums[1])>>
    ELSE <<ToString(nums[1]), ".">> \o JoinDots(Tail(nums))

\* f"toc_{node_id}_{suffix}"
Anchor(id, suffix) == "toc_" \o id \o "_" \o suffix
NoAnchor == ""

\* node.get('name', '').strip(): the stripped title, or an exception when the
\* value under 'name' has no strip().
NameStripped(name) ==
    CASE name.k = "absent" -> [st |-> "ok", x |-> <<>>]
      [] name.k = "str" -> [st |-> "ok", x |-> Strip(name.x)]
      [] OTHER -> [st |-> "raise", x |-> <<>>]

\* Mutant: only 'tu' leaves the introduction unnumbered.
IntroUnnumbered_TuOnly(id, dt) == id = "intro" /\ dt = "tu"

IntroUnnumbered(id, dt) == id = "intro" /\ dt \in {"re", "tu"}
IntroInToc(id, dt) == ~(id = "intro" /\ dt = "re")

\* Mutant: a top-level node is numbered by its array index.
CurrentNumbers_ByIndex(level, isIntro, i, parent_numbers, counter) ==
    IF level = 0 /\ ~isIntro THEN <<i + 1>>
    ELSE IF level = 1
         THEN IF parent_numbers # <<>> THEN Append(parent_numbers, i + 1)
              ELSE <<1, i + 1>>
         ELSE Append(parent_numbers, i + 1)

\* Lines 746-766: the number of a node that should be numbered.
CurrentNumbers(level, isIntro, i, parent_numbers, counter) ==
    IF level = 0 /\ ~isIntro THEN <<counter + 1>>
    ELSE IF level = 1
         THEN IF parent_numbers # <<>> THEN Append(parent_numbers, i + 1)
              ELSE <<1, i + 1>>
         ELSE Append(parent_numbers, i + 1)

TocEntry(anchor, id, level, title, numbered, display, isIntro, inToc) ==
    [id |-> anchor, section_id |-> id, level |-> level, title |-> title,
     numbered |-> numbered, display_number |-> display, is_intro |-> isIntro,
     in_toc |-> inToc]

\* Mutant: an id without a number is answered with "0".
get_node_number_Zero(id) ==
    IF id \in DOMAIN node_numbers
    THEN IF id = "intro" /\ doc_type = "re" THEN <<>> ELSE JoinDots(node_numbers[id])
    ELSE <<"0">>

\* GOSTTOCGenerator.get_node_number
get_node_number(id) ==
    IF id \in DOMAIN node_numbers
    THEN IF id = "intro" /\ doc_type = "re" THEN <<>> ELSE JoinDots(node_numbers[id])
    ELSE <<>>

\* GOSTTOCGenerator.get_entry_by_id(...).get('id')
BookmarkOf(id) == IF id \in DOMAIN id_to_entry THEN id_to_entry[id].id ELSE NoAnchor

\* One iteration of the loop of _collect_nodes_recursive, on node ci; the
\* recursive call is the move of ci into the children array.
CollectNode ==
    /\ pc = "collect"
    /\ LET n == tree[ci]
           level == n.depth
           nm == NameStripped(n.name)
           after(j) == IF j > Len(tree) THEN "emit" ELSE "collect"
       IN IF nm.st = "raise"
          THEN /\ pc' = "crashed"
               /\ UNCHANGED tocVars
          ELSE IF n.id = "" \/ nm.x = <<>> \/ n.id \in ServiceIds
          THEN /\ ci' = NextSibling(tree, ci)
               /\ pc' = after(ci')
               /\ UNCHANGED <<toc_entries, id_to_entry, node_numbers, toc_bookmark_counter,
                              section_counter, cnums>>
          ELSE LET isIntro == IntroUnnumbered(n.id, doc_type)
                   should_number == ~isIntro
                   should_be_in_toc == IntroInToc(n.id, doc_type)
                   current_numbers ==
                       IF should_number
                       THEN CurrentNumbers(level, isIntro, IndexInArray(tree, ci), cnums[level + 1],
                                           section_counter)
                       ELSE <<>>
                   inToc == should_be_in_toc /\ level < max_levels
                   entry ==
                       IF inToc
                       THEN TocEntry(Anchor(n.id, ToString(toc_bookmark_counter + 1)), n.id,
                                     level, nm.x, should_number, JoinDots(current_numbers),
                                     isIntro, TRUE)
                       ELSE TocEntry(Anchor(n.id, n.id), n.id, level, nm.x, should_number,
                                     <<>>, isIntro, FALSE)
               IN /\ section_counter' =
                        IF should_number /\ level = 0 /\ ~isIntro THEN section_counter + 1
                        ELSE section_counter
                  /\ node_numbers' =
                        IF should_number
                        THEN [k \in DOMAIN node_numbers \cup {n.id} |->
                                 IF k = n.id THEN current_numbers ELSE node_numbers[k]]
                        ELSE node_numbers
                  /\ toc_bookmark_counter' =
                        IF inToc THEN toc_bookmark_counter + 1 ELSE toc_bookmark_counter
                  /\ toc_entries' = IF inToc THEN Append(toc_entries, entry) ELSE toc_entries
                  /\ id_to_entry' =
                        [k \in DOMAIN id_to_entry \cup {n.id} |->
                            IF k = n.id THEN entry ELSE id_to_entry[k]]
                  /\ cnums' = Append(SubSeq(cnums, 1, level + 1), current_numbers)
                  /\ ci' = ci + 1
                  /\ pc' = after(ci')
    /\ UNCHANGED <<tree, builds, valVars, procVars, cfgVars>>

\* ------------------------------------------------------- section processor
\* An instruction appended to xml_parts.  pos is the tree position of the node
\* a heading was emitted for; level is the level the style was chosen by.
OutRec(k, id, pos, level, style, bookmark, number, x, n) ==
    [k |-> k, id |-> id, pos |-> pos, level |-> level, style |-> style,
     bookmark |-> bookmark, number |-> number, x |-> x, n |-> n]

Heading(id, pos, level, style, bookmark, number, title) ==
    OutRec("heading", id, pos, level, style, bookmark, number, title, 0)
Para(style, x) == OutRec("para", "", 0, 0, style, NoAnchor, <<>>, x, 0)
Marker(k) == OutRec(k, "", 0, 0, "", NoAnchor, <<>>, <<>>, 0)
PageBreak == Marker("page_break")
TableOut(n) == OutRec("table", "", 0, 0, "TableTitle", NoAnchor, <<>>, <<>>, n)
ImageOut(n) == OutRec("image", "", 0, 0, "TableTitle", NoAnchor, <<>>, <<>>, n)

\* GOSTFormatter.get_level_style
get_level_style(level) ==
    CASE level = 0 -> "Heading_20_1"
      [] level = 1 -> "Heading_20_2"
      [] level = 2 -> "Clause"
      [] level = 3 -> "Subclause"
      [] OTHER -> "Normal"

\* GOSTSectionProcessor._determine_node_type
determine_node_type(n) ==
    CASE n.key = "subsections" -> "section"
      [] n.key = "points" -> "subsection"
      [] n.key = "subpoints" -> "point"
      [] n.hasBlocks -> "subpoint"
      [] OTHER -> "clause"

\* Lines 986-1009 of _process_node_recursive: the level of a node.
NodeLevel(node_type, parent_level) ==
    IF parent_level = -1
    THEN CASE node_type = "section" -> 0
           [] node_type = "subsection" -> 1
           [] node_type = "point" -> 2
           [] node_type = "subpoint" -> 3
           [] OTHER -> 4
    ELSE IF node_type = "subsection" /\ parent_level = 0 THEN 1
    ELSE IF node_type = "point" /\ parent_level = 1 THEN 2
    ELSE IF node_type = "point" /\ parent_level = 0 THEN 1
    ELSE parent_level + 1

SUBCLAUSE_LETTERS ==
    <<"a", "b", "v", "g", "d", "e", "zh", "z", "i", "k", "l", "m", "n", "o", "p", "r", "s",
      "t", "u", "f", "h", "c", "ch", "sh", "sch", "eh", "yu", "ya">>

roman_numerals == <<"I", "II", "III", "IV", "V", "VI", "VII", "VIII", "IX", "X">>

EndsWithPunct(x) == x # <<>> /\ Last(x).t = "lit" /\ Last(x).s \in {";", ".", ":"}

ListMarker(style, index) ==
    CASE style = "alpha" ->
            IF index < Len(SUBCLAUSE_LETTERS) THEN SUBCLAUSE_LETTERS[index + 1]
            ELSE "[" \o ToString(index + 1) \o "]"
      [] style = "numeric" -> ToString(index + 1)
      [] style = "roman" ->
            IF index < Len(roman_numerals) THEN roman_numerals[index + 1]
            ELSE "[" \o ToString(index + 1) \o "]"
      [] OTHER -> "-"

\* GOSTFormatter.format_list_item
format_list_item(item_text, index, style, is_last) ==
    LET x == Strip(item_text) IN
    IF style = "no_bullet"
    THEN IF x # <<>> /\ ~EndsWithPunct(x) THEN Append(x, Lit(".")) ELSE x
    ELSE LET head == IF style \in {"alpha", "numeric", "roman"}
                     THEN <<Lit(ListMarker(style, index)), Lit(")"), Space>>
                     ELSE <<Lit(ListMarker(style, index)), Space>>
         IN IF x = <<>> \/ ~EndsWithPunct(x)
            THEN head \o x \o <<Lit(IF is_last THEN "." ELSE ";")>>
            ELSE head \o x

\* Mutant: the images of a block list are numbered from 1.
ImagePositions_FromOne(blocks, counter) ==
    LET ps == {i \in 1..Len(blocks) : blocks[i].k = "image"} IN
    [i \in ps |-> Cardinality({j \in ps : j < i}) + 1]

\* image_positions of _process_blocks: position of an image block -> number.
ImagePositions(blocks, counter) ==
    LET ps == {i \in 1..Len(blocks) : blocks[i].k = "image"} IN
    [i \in ps |-> Cardinality({j \in ps : j < i}) + 1 + counter]

\* Mutant: without a later image the current counter is shown.
NextImageNum_Current(image_positions, i, counter) ==
    LET later == {q \in DOMAIN image_positions : q > i} IN
    IF later # {}
    THEN image_positions[CHOOSE q \in later : \A r \in later : q <= r]
    ELSE counter

\* The forward scan for {{image_counter_next}} at block i.
NextImageNum(image_positions, i, counter) ==
    LET later == {q \in DOMAIN image_positions : q > i} IN
    IF later # {}
    THEN image_positions[CHOOSE q \in later : \A r \in later : q <= r]
    ELSE counter + 1

\* The substitutions made in a text block or list item before it is emitted.
ResolveCounters(x, image_positions, i, st) ==
    LET x1 == IF Contains(x, TableCounterNext)
              THEN ReplaceToken(x, TableCounterNext, st.table_counter + 1) ELSE x
        x2 == IF Contains(x1, ImageCounterNext)
              THEN ReplaceToken(x1, ImageCounterNext,
                                NextImageNum(image_positions, i, st.image_counter))
              ELSE x1
    IN x2

\* The item loop of a list block (lines 1170-1201).
RECURSIVE ProcessItems(_, _, _, _, _, _, _)
ProcessItems(items, k, style, image_positions, i, parent_level, st) ==
    IF k > Len(items) \/ st.st # "ok" THEN st
    ELSE LET r == replace_placeholders(
                      ResolveCounters(items[k], image_positions, i, st), data)
         IN ProcessItems(items, k + 1, style, image_positions, i, parent_level,
              IF r.st = "raise" THEN [st EXCEPT !.st = "raise"]
              ELSE IF Strip(r.x) # <<>>
                   THEN [st EXCEPT !.out = Append(@,
                            Para(IF parent_level >= 2 THEN "Subclause" ELSE "Normal",
                                 format_list_item(r.x, k - 1, style, k = Len(items))))]
                   ELSE st)

\* The block loop of _process_blocks over blocks[i..].  st carries xml_parts,
\* the counters, the image list and the (mutated) block list.
RECURSIVE ProcessBlocksFrom(_, _, _, _)
ProcessBlocksFrom(i, image_positions, parent_level, st) ==
    IF i > Len(st.blocks) \/ st.st # "ok" THEN st
    ELSE LET blk == st.blocks[i]
             textStyle == IF parent_level >= 3 THEN "Normal" ELSE "Clause"
         IN ProcessBlocksFrom(i + 1, image_positions, parent_level,
              CASE blk.k = "str" ->
                     LET r == replace_placeholders(blk.x, data) IN
                     IF r.st = "raise" THEN [st EXCEPT !.st = "raise"]
                     ELSE IF Strip(r.x) # <<>>
                          THEN [st EXCEPT !.out = Append(@, Para(textStyle, r.x))]
                          ELSE st
                [] blk.k = "scalar" -> st
                [] blk.k = "text" ->
                     LET r == replace_placeholders(
                                  ResolveCounters(blk.x, image_positions, i, st), data)
                     IN IF r.st = "raise" THEN [st EXCEPT !.st = "raise"]
                        ELSE IF Strip(r.x) # <<>>
                             THEN [st EXCEPT !.out = Append(@, Para(textStyle, r.x))]
                             ELSE st
                [] blk.k = "list" ->
                     ProcessItems(blk.items, 1, IF blk.style = "" THEN "bullet" ELSE blk.style,
                                  image_positions, i, parent_level, st)
                [] blk.k = "list_scalar" -> [st EXCEPT !.st = "raise"]
                [] blk.k = "table_scalar" -> [st EXCEPT !.st = "raise"]
                [] blk.k = "table" ->
                     [st EXCEPT !.blocks[i].typed = TRUE,
                                !.table_counter = @ + 1,
                                !.out = Append(@, TableOut(st.table_counter + 1))]
                [] blk.k = "image" ->
                     [st EXCEPT !.blocks[i].typed = TRUE,
                                !.image_counter = @ + 1,
                                !.images = Append(@, st.image_counter + 1),
                                !.out = Append(@, ImageOut(st.image_counter + 1))]
                [] blk.k = "page_break" -> [st EXCEPT !.out = Append(@, PageBreak)]
                [] OTHER -> st)

\* GOSTSectionProcessor._process_blocks
process_blocks(blocks, parent_level, st) ==
    ProcessBlocksFrom(1, ImagePositions(blocks, st.image_counter), parent_level,
                      [st EXCEPT !.blocks = blocks])

\* The processor's mutable fields, threaded through one node's processing.
ProcState ==
    [out |-> out, table_counter |-> table_counter, image_counter |-> image_counter,
     images |-> images, blocks |-> <<>>, st |-> "ok"]

\* GOSTTOCGenerator.generate_toc_xml
TocLine(e) ==
    OutRec("toc_line", e.section_id, 0, e.level, "TOC", e.id,
           IF e.numbered THEN e.display_number ELSE <<>>, e.title, 0)

generate_toc_xml ==
    <<Marker("toc_title")>> \o
    (IF toc_entries = <<>> THEN <<Marker("toc_placeholder")>>
     ELSE [k \in 1..Len(toc_entries) |-> TocLine(toc_entries[k])])

\* GOSTSectionProcessor._process_intro_section on node i.
process_intro_section(i, st) ==
    LET n == tree[i]
        nm == NameStripped(n.name)
    IN IF nm.st = "raise" THEN [st EXCEPT !.st = "raise"]
       ELSE LET s1 == IF nm.x # <<>>
                      THEN [st EXCEPT !.out = Append(@,
                               Heading(n.id, i, 0, get_level_style(0), BookmarkOf(n.id),
                                       <<>>, nm.x))]
                      ELSE st
                s2 == IF n.hasBlocks THEN process_blocks(n.blocks, 0, s1)
                      ELSE [s1 EXCEPT !.blocks = n.blocks]
            IN IF s2.st = "ok" THEN [s2 EXCEPT !.out = Append(@, PageBreak)] ELSE s2

\* The body of _process_node_recursive on node i, up to the recursion into
\* the children; level is the level the node was given.
process_node(i, parent_level, st) ==
    LET n == tree[i]
        nm == NameStripped(n.name)
        level == NodeLevel(determine_node_type(n), parent_level)
    IN IF nm.st = "raise" THEN [st EXCEPT !.st = "raise"]
       ELSE LET r == IF nm.x # <<>> THEN replace_placeholders(nm.x, data)
                     ELSE [st |-> "ok", x |-> <<>>]
            IN IF r.st = "raise" THEN [st EXCEPT !.st = "raise"]
               ELSE LET hasImage == n.hasBlocks /\ \E b \in 1..Len(n.blocks) :
                                        n.blocks[b].k = "image"
                        node_name ==
                            IF Contains(r.x, ImageCounterNext) /\ hasImage
                            THEN ReplaceToken(r.x, ImageCounterNext, st.image_counter + 1)
                            ELSE r.x
                        node_number == IF n.id # "" THEN get_node_number(n.id) ELSE <<>>
                        number == IF n.id = "intro" /\ doc_type = "re" THEN <<>>
                                  ELSE node_number
                        s1 == IF node_name # <<>>
                              THEN [st EXCEPT !.out = Append(@,
                                       Heading(n.id, i, level, get_level_style(level),
                                               BookmarkOf(n.id), number, node_name))]
                              ELSE st
                    IN IF n.hasBlocks THEN process_blocks(n.blocks, level, s1)
                       ELSE [s1 EXCEPT !.blocks = n.blocks]

\* Mutant: the reset leaves the image counter and the image list alone.
reset_document_counters_KeepImages ==
    [table_counter |-> 0, image_counter |-> image_counter, images |-> images]

\* GOSTSectionProcessor.reset_document_counters
reset_document_counters == [table_counter |-> 0, image_counter |-> 0, images |-> <<>>]

\* The assignments at the head of GOSTTOCGenerator.collect_toc_structure
reset_toc ==
    [toc_entries |-> <<>>, id_to_entry |-> NoEntries, node_numbers |-> NoEntries,
     toc_bookmark_counter |-> 0, section_counter |-> 0]

\* section.get('name', <default title>) of the appendices branch: the default
\* title when the key is absent, nothing for a null or empty name.
AppendicesName(name) ==
    CASE name.k = "absent" -> <<Lit("Appendices")>>
      [] name.k = "str" -> name.x
      [] OTHER -> <<>>

\* "intro" in error.lower()
MentionsIntro(msg) ==
    \/ msg.id = "intro"
    \/ \E k \in 1..Len(msg.path) : msg.path[k].id = "intro"

\* GOSTTOCGenerator.__init__: max_levels: int = 2
DefaultMaxLevels == 2

\* ----------------------------------------------------------------- actions
\* UniversalDocumentBuilder.__init__: the TOC generator built with the
\* configured max_levels is replaced by GOSTTOCGenerator(doc_type), the
\* template is validated, and the builder exists unless an error that does not
\* mention intro was reported.
Construct ==
    /\ pc = "new"
    /\ max_levels' = DefaultMaxLevels
    /\ LET v == validate(tree) IN
       /\ errors' = v.errors
       /\ warnings' = v.warnings
       /\ seen_ids' = v.seen
       /\ pc' = IF \E k \in 1..Len(v.errors) : ~MentionsIntro(v.errors[k])
                THEN "rejected" ELSE "idle"
    /\ UNCHANGED <<tree, builds, tocVars, procVars, doc_type, max_toc_levels, data, calls,
                   text, resolved>>

\* UniversalDocumentBuilder.generate up to the first iteration of the
\* collector: validation, then the resets of _create_content_xml,
\* create_content_structure and collect_toc_structure.
Generate ==
    /\ pc \in {"idle", "done", "aborted", "crashed"}
    /\ builds < calls
    /\ builds' = builds + 1
    /\ LET v == validate(tree) IN
       /\ errors' = v.errors
       /\ warnings' = v.warnings
       /\ seen_ids' = v.seen
       /\ IF v.errors # <<>>
          THEN /\ pc' = "aborted"
               /\ UNCHANGED <<tocVars, procVars>>
          ELSE /\ pc' = "collect"
               /\ table_counter' = reset_document_counters.table_counter
               /\ image_counter' = reset_document_counters.image_counter
               /\ images' = reset_document_counters.images
               /\ toc_entries' = reset_toc.toc_entries
               /\ id_to_entry' = reset_toc.id_to_entry
               /\ node_numbers' = reset_toc.node_numbers
               /\ toc_bookmark_counter' = reset_toc.toc_bookmark_counter
               /\ section_counter' = reset_toc.section_counter
               /\ out' = <<>>
               /\ ci' = 1
               /\ cnums' = << <<>> >>
               /\ ei' = 1
               /\ elev' = <<>>
    /\ UNCHANGED <<tree, cfgVars>>

\* One iteration of the section loop of create_content_structure (a top-level
\* node) or one call of _process_node_recursive (a nested node), on node ei.
EmitNode ==
    /\ pc = "emit"
    /\ LET n == tree[ei]
           d == n.depth
           parent_level == IF d = 0 THEN -1 ELSE elev[d]
           level == NodeLevel(determine_node_type(n), parent_level)
           nm == NameStripped(n.name)
           how == CASE d = 0 /\ n.id = "title_page" -> "title_page"
                    [] d = 0 /\ n.id = "table_of_contents" -> "toc"
                    [] d = 0 /\ n.id = "appendices" -> "appendices"
                    [] d = 0 /\ n.id = "intro" -> "intro"
                    [] d > 0 /\ nm.st = "raise" -> "raise"
                    [] d > 0 /\ n.id \in ServiceIds -> "return"
                    [] OTHER -> "node"
           p0 == [ProcState EXCEPT !.blocks = n.blocks]
           st == CASE how = "title_page" ->
                        [p0 EXCEPT !.out = @ \o <<Marker("title_page"), PageBreak>>]
                   [] how = "toc" ->
                        [p0 EXCEPT !.out = @ \o generate_toc_xml \o <<PageBreak>>]
                   [] how = "appendices" ->
                        [p0 EXCEPT !.out = @ \o <<Marker("appendices"), PageBreak>> \o
                            (IF AppendicesName(n.name) # <<>>
                             THEN <<Heading(n.id, ei, 0, "Heading_20_1", NoAnchor, <<>>,
                                            AppendicesName(n.name))>>
                             ELSE <<>>)]
                   [] how = "intro" -> process_intro_section(ei, p0)
                   [] how = "raise" -> [p0 EXCEPT !.st = "raise"]
                   [] how = "return" -> p0
                   [] OTHER -> process_node(ei, parent_level, p0)
           descend == how = "node" /\ st.st = "ok"
       IN /\ out' = st.out
          /\ table_counter' = st.table_counter
          /\ image_counter' = st.image_counter
          /\ images' = st.images
          /\ tree' = [tree EXCEPT ![ei].blocks = st.blocks]
          /\ ei' = IF descend THEN ei + 1 ELSE NextSibling(tree, ei)
          /\ elev' = IF descend THEN Append(SubSeq(elev, 1, d), level) ELSE elev
          /\ pc' = IF st.st = "raise" THEN "crashed"
                   ELSE IF ei' > Len(tree) THEN "done" ELSE "emit"
    /\ UNCHANGED <<builds, valVars, tocVars, cfgVars>>

Next == Construct \/ Generate \/ CollectNode \/ EmitNode

\* ------------------------------------------------------------------ inputs
\* Shapes of a forest of n nodes: the depth of each node in document order.
ShapesOf(n) ==
    {d \in [1..n -> 0..(n - 1)] :
        d[1] = 0 /\ \A i \in 1..(n - 1) : d[i + 1] <= d[i] + 1}

Shapes == UNION {ShapesOf(n) : n \in 1..MaxNodes}

HasKids(d, i) == i < Len(d) /\ d[i + 1] = d[i] + 1

OwnId(i) == "n" \o ToString(i)

\* The children key the project's templates use at each depth.
CanonKey(depth) ==
    CASE depth = 0 -> "subsections"
      [] depth = 1 -> "points"
      [] OTHER -> "subpoints"

\* A node choice: what the template author wrote at one node.  id "own" stands
\* for an id no other node has, key "canon" for the usual key of the depth.
Choice(id, name, key, hasBlocks, blocks) ==
    [id |-> id, name |-> name, key |-> key, hasBlocks |-> hasBlocks, blocks |-> blocks]

MkNode(d, i, c) ==
    Node(d[i],
         IF c.id = "own" THEN OwnId(i) ELSE c.id,
         c.name,
         IF c.key = "canon" THEN (IF HasKids(d, i) THEN CanonKey(d[i]) ELSE "none")
         ELSE c.key,
         c.hasBlocks, c.blocks)

\* A node with children carries a children key.
WellFormed(d, c) == \A i \in 1..Len(d) : HasKids(d, i) => c[i].key # "none"

TreesOver(choices) ==
    UNION {{[i \in 1..Len(d) |-> MkNode(d, i, c[i])] :
              c \in {c \in [1..Len(d) -> choices] : WellFormed(d, c)}} : d \in Shapes}

\* Ids and titles: ordinary nodes, nodes without id, the introduction with and
\* without a title, a service node, a node without title.
NumChoices ==
    {Choice("own", NameStr(Title), "canon", FALSE, <<>>),
     Choice("", NameStr(Title), "canon", FALSE, <<>>),
     Choice("intro", NameStr(Title), "canon", FALSE, <<>>),
     Choice("intro", NameAbsent, "canon", FALSE, <<>>),
     Choice("title_page", NameStr(Title), "canon", FALSE, <<>>),
     Choice("own", NameStr(<<Space>>), "canon", FALSE, <<>>)}

NumTrees == TreesOver(NumChoices)

\* Children keys: every key at every place, with and without a blocks key.
DepthChoices ==
    {Choice("own", NameStr(Title), k, FALSE, <<>>) :
        k \in {"subsections", "points", "subpoints", "none"}}
    \cup {Choice("own", NameStr(Title), "none", TRUE, <<>>),
          Choice("own", NameAbsent, "canon", FALSE, <<>>)}

DepthTrees == TreesOver(DepthChoices)

DocTypes == {"re", "tu", "ps"}

NoData == VMap(NoMap)

InitObjects ==
    /\ pc = "new"
    /\ builds = 0
    /\ errors = <<>> /\ warnings = <<>> /\ seen_ids = {}
    /\ toc_entries = <<>> /\ id_to_entry = NoEntries /\ node_numbers = NoEntries
    /\ toc_bookmark_counter = 0 /\ section_counter = 0
    /\ ci = 1 /\ cnums = << <<>> >>
    /\ table_counter = 0 /\ image_counter = 0 /\ images = <<>>
    /\ out = <<>> /\ ei = 1 /\ elev = <<>>
    /\ text = <<>> /\ resolved = [st |-> "none", x |-> <<>>]

\* max_toc_levels is toc_settings.max_levels of the configuration (2 when the
\* key is missing); the first generator of UniversalDocumentBuilder.__init__
\* is built with it.
Init ==
    /\ InitObjects
    /\ tree \in NumTrees
    /\ doc_type \in DocTypes
    /\ max_toc_levels = DefaultMaxLevels
    /\ max_levels = max_toc_levels
    /\ data = NoData
    /\ calls = 1

Spec == Init /\ [][Next]_vars

\* The same trees under every configured toc_settings.max_levels around the
\* default.
InitConfig ==
    /\ InitObjects
    /\ tree \in NumTrees
    /\ doc_type = "ps"
    /\ max_toc_levels \in {1, DefaultMaxLevels, DefaultMaxLevels + 1}
    /\ max_levels = max_toc_levels
    /\ data = NoData
    /\ calls = 1

SpecConfig == InitConfig /\ [][Next]_vars

InitDepth ==
    /\ InitObjects
    /\ tree \in DepthTrees
    /\ doc_type = "ps"
    /\ max_toc_levels = DefaultMaxLevels
    /\ max_levels = max_toc_levels
    /\ data = NoData
    /\ calls = 1

SpecDepth == InitDepth /\ [][Next]_vars

\* Names: a title, a missing 'name' key, null, a blank string and a number on
\* ordinary nodes, and an introduction whose name is null.
NameChoices ==
    {Choice("own", nm, "canon", FALSE, <<>>) :
        nm \in {NameStr(Title), NameAbsent, NameNull, NameStr(<<Space>>), NameNum}}
    \cup {Choice("intro", NameNull, "canon", FALSE, <<>>)}

InitNames ==
    /\ InitObjects
    /\ tree \in TreesOver(NameChoices)
    /\ doc_type = "ps"
    /\ max_toc_levels = DefaultMaxLevels
    /\ max_levels = max_toc_levels
    /\ data = NoData
    /\ calls = 1

SpecNames == InitNames /\ [][Next]_vars

\* List blocks: one node with one list block of up to MaxItems items in each
\* marker style; an item is plain, ends in ';' or '.', or resolves to nothing.
ItemTexts ==
    {<<Lit("first")>>, <<Lit("second"), Lit(";")>>, <<Lit("third"), Lit(".")>>,
     <<Ph(<<Part("c")>>)>>}

ItemLists == UNION {[1..n -> ItemTexts] : n \in 1..MaxItems}

ListStyles == {"bullet", "alpha", "numeric", "roman"}

ListTrees ==
    {<<Node(0, OwnId(1), NameStr(Title), "none", TRUE, <<ListBlock(style, items)>>)>> :
        style \in ListStyles, items \in ItemLists}

InitLists ==
    /\ InitObjects
    /\ tree \in ListTrees
    /\ doc_type = "ps"
    /\ max_toc_levels = DefaultMaxLevels
    /\ max_levels = max_toc_levels
    /\ data = NoData
    /\ calls = 1

SpecLists == InitLists /\ [][Next]_vars

\* Content blocks: up to MaxBlocks blocks placed on the nodes of a tree of up
\* to MaxBlockNodes nodes, ordinary except at most one, the introduction.
BlockChoices ==
    {Block("text", <<Lit("see"), Space, ImageCounterNext>>),
     Block("image", Title),
     Block("table", Title)}

Placements(n) ==
    UNION {{p \in [1..k -> (1..n) \X BlockChoices] :
               \A j \in 1..(k - 1) : p[j][1] <= p[j + 1][1]} : k \in 0..MaxBlocks}

RECURSIVE BlocksAt(_, _)
BlocksAt(p, i) ==
    IF p = <<>> THEN <<>>
    ELSE (IF Head(p)[1] = i THEN <<Head(p)[2]>> ELSE <<>>) \o BlocksAt(Tail(p), i)

BlockTrees ==
    UNION {{[i \in 1..Len(d) |->
               Node(d[i], IF i = intro THEN "intro" ELSE OwnId(i), NameStr(Title),
                    IF HasKids(d, i) THEN CanonKey(d[i]) ELSE "none",
                    BlocksAt(p, i) # <<>>, BlocksAt(p, i))] :
              intro \in 0..Len(d), p \in Placements(Len(d))} :
           d \in UNION {ShapesOf(n) : n \in 1..MaxBlockNodes}}

InitBlocks ==
    /\ InitObjects
    /\ tree \in BlockTrees
    /\ doc_type = "tu"
    /\ max_toc_levels = DefaultMaxLevels
    /\ max_levels = max_toc_levels
    /\ data = NoData
    /\ calls = MaxBuilds

SpecBlocks == InitBlocks /\ [][Next]_vars

\* The TOC node: ordinary nodes, the table_of_contents node and nodes without
\* id, at every place of the tree.
TocChoices ==
    {Choice("own", NameStr(Title), "canon", FALSE, <<>>),
     Choice("table_of_contents", NameStr(Title), "canon", FALSE, <<>>),
     Choice("", NameStr(Title), "canon", FALSE, <<>>)}

InitToc ==
    /\ InitObjects
    /\ tree \in TreesOver(TocChoices)
    /\ doc_type \in DocTypes
    /\ max_toc_levels = DefaultMaxLevels
    /\ max_levels = max_toc_levels
    /\ data = NoData
    /\ calls = 1

SpecToc == InitToc /\ [][Next]_vars

\* Block shapes: one node with up to MaxBlocks blocks, each a string, a number,
\* a text, a list with and without items, a list or a table whose value is no
\* mapping, or a table.
ShapeChoices ==
    {Block("str", Title), Block("scalar", <<>>), Block("text", Title),
     ListBlock("bullet", <<Title>>), ListBlock("bullet", <<>>),
     Block("list_scalar", <<>>), Block("table_scalar", <<>>), Block("table", Title)}

ShapeTrees ==
    {<<Node(0, OwnId(1), NameStr(Title), "none", TRUE, blocks)>> :
        blocks \in UNION {[1..n -> ShapeChoices] : n \in 1..MaxBlocks}}

InitShapes ==
    /\ InitObjects
    /\ tree \in ShapeTrees
    /\ doc_type = "ps"
    /\ max_toc_levels = DefaultMaxLevels
    /\ max_levels = max_toc_levels
    /\ data = NoData
    /\ calls = 1

SpecShapes == InitShapes /\ [][Next]_vars

\* Ids: ordinary ids and ids that hold underscores, at every place of the tree.
IdChoices ==
    {Choice("own", NameStr(Title), "canon", FALSE, <<>>),
     Choice("s_1", NameStr(Title), "canon", FALSE, <<>>),
     Choice("s_1_s", NameStr(Title), "canon", FALSE, <<>>)}

InitIds ==
    /\ InitObjects
    /\ tree \in TreesOver(IdChoices)
    /\ doc_type \in DocTypes
    /\ max_toc_levels = DefaultMaxLevels
    /\ max_levels = max_toc_levels
    /\ data = NoData
    /\ calls = 1

SpecIds == InitIds /\ [][Next]_vars

\* Figure references: up to MaxBlockNodes top-level nodes, titled with or
\* without {{image_counter_next}}, carrying up to MaxBlocks + 1 blocks: a text
\* block and a list item that refer to the next figure, and images.
FigureRefText == <<Lit("see"), Space, ImageCounterNext>>

FigureChoices ==
    {Block("text", FigureRefText), ListBlock("bullet", <<FigureRefText>>),
     Block("image", Title)}

FigureNames == {NameStr(Title), NameStr(FigureRefText)}

FigurePlacements(n) ==
    UNION {{p \in [1..k -> (1..n) \X FigureChoices] :
               \A j \in 1..(k - 1) : p[j][1] <= p[j + 1][1]} : k \in 0..(MaxBlocks + 1)}

FigureTrees(n) ==
    {[i \in 1..n |-> Node(0, OwnId(i), nm[i], "none", BlocksAt(p, i) # <<>>, BlocksAt(p, i))] :
        nm \in [1..n -> FigureNames], p \in FigurePlacements(n)}

InitFigures ==
    /\ InitObjects
    /\ tree \in UNION {FigureTrees(n) : n \in 1..MaxBlockNodes}
    /\ doc_type = "ps"
    /\ max_toc_levels = DefaultMaxLevels
    /\ max_levels = max_toc_levels
    /\ data = NoData
    /\ calls = 1

SpecFigures == InitFigures /\ [][Next]_vars

\* ------------------------------------------- direct calls of the resolver
Paths ==
    {<<Part("a")>>, <<Part("a"), Part("b")>>, <<Part("c")>>,
     <<PartIdx("a", 0)>>, <<PartIdx("a", 0), Part("b")>>, <<PartIdx("a", 1)>>,
     <<PartIdx("a", -2)>>}

Texts ==
    {<<Ph(q)>> : q \in Paths}
    \cup {<<Lit("x"), Space, Space, Ph(q), Space>> : q \in Paths}
    \cup {<<>>, <<Lit("x")>>}

Leaves == {VStr(<<"X">>), VStr(<<"a", "b">>), VNum(5), VNull}

Values ==
    Leaves
    \cup {VList(<<>>), VList(<<VStr(<<"b">>)>>), VList(<<VMap([k \in {"b"} |-> VStr(<<"X">>)])>>)}
    \cup {VMap(NoMap)}
    \cup {VMap([k \in {"b"} |-> v]) : v \in Leaves}
    \cup {VMap([k \in {"value"} |-> v]) : v \in Leaves}
    \cup {VMap([k \in {"b"} |-> VMap([j \in {"value"} |-> VStr(<<"X">>)])])}

Datas == {VMap(NoMap)} \cup {VMap([k \in {"a"} |-> v]) : v \in Values}

InitData ==
    /\ builds = 0
    /\ errors = <<>> /\ warnings = <<>> /\ seen_ids = {}
    /\ toc_entries = <<>> /\ id_to_entry = NoEntries /\ node_numbers = NoEntries
    /\ toc_bookmark_counter = 0 /\ section_counter = 0
    /\ ci = 1 /\ cnums = << <<>> >>
    /\ table_counter = 0 /\ image_counter = 0 /\ images = <<>>
    /\ out = <<>> /\ ei = 1 /\ elev = <<>>
    /\ resolved = [st |-> "none", x |-> <<>>]
    /\ pc = "resolve"
    /\ tree = <<>>
    /\ doc_type = "ps"
    /\ max_toc_levels = DefaultMaxLevels
    /\ max_levels = max_toc_levels
    /\ calls = 0
    /\ text \in Texts
    /\ data \in Datas

\* A call data_processor.replace_placeholders(text).
Resolve ==
    /\ pc = "resolve"
    /\ resolved' = replace_placeholders(text, data)
    /\ pc' = "resolved"
    /\ UNCHANGED <<tree, doc_type, max_levels, max_toc_levels, data, calls, builds,
                   valVars, tocVars, procVars, text>>

SpecData == InitData /\ [][Resolve]_vars

\* ================================================================== claims
Collected == pc \in {"emit", "done"}

Headings == {k \in 1..Len(out) : out[k].k = "heading"}

\* What the claims call a node the collector numbers / lists, read off the
\* tree alone.
Titled(n) == n.name.k = "str" /\ Strip(n.name.x) # <<>>
Regular(n) == n.id # "" /\ Titled(n) /\ n.id \notin ServiceIds
NumberedNode(n) == Regular(n) /\ ~(n.id = "intro" /\ doc_type \in {"re", "tu"})
TocEligible(n) == Regular(n) /\ ~(n.id = "intro" /\ doc_type = "re")

PosOf(id) == CHOOSE i \in 1..Len(tree) : tree[i].id = id

\* C1: every node that both passes visit has the same depth in the emitter as
\* the level the collector recorded for it.
C1_SameDepthInBothPasses ==
    \A k \in Headings :
        out[k].id \in DOMAIN id_to_entry => out[k].level = id_to_entry[out[k].id].level

\* C2: under a numbered parent the N-th numbered child has the number
\* parent_number ++ [N], also when entries of the children array are skipped.
NumberedKids(i) ==
    SelectSeq(Children(tree, i), LAMBDA j : tree[j].id \in DOMAIN node_numbers)

C2_SiblingsGapFree ==
    Collected =>
        \A i \in 1..Len(tree) :
            tree[i].id \in DOMAIN node_numbers =>
                \A N \in 1..Len(NumberedKids(i)) :
                    node_numbers[tree[NumberedKids(i)[N]].id]
                        = Append(node_numbers[tree[i].id], N)

\* C3: the k-th numbered top-level node has number [k]; service nodes, nodes
\* without id or title and an unnumbered intro take no counter value.
NumberedTopBefore(i) == {j \in 1..i : tree[j].depth = 0 /\ NumberedNode(tree[j])}

C3_TopLevelRunningCounter ==
    Collected =>
        /\ \A i \in 1..Len(tree) :
              tree[i].depth = 0 =>
                  IF NumberedNode(tree[i])
                  THEN /\ tree[i].id \in DOMAIN node_numbers
                       /\ node_numbers[tree[i].id] = <<Cardinality(NumberedTopBefore(i))>>
                  ELSE tree[i].id \notin DOMAIN node_numbers
        /\ section_counter = Cardinality(NumberedTopBefore(Len(tree)))

C3_Witness ==
    /\ pc = "done"
    /\ \E i, j \in 1..Len(tree) :
          /\ i < j /\ tree[i].depth = 0 /\ tree[j].depth = 0
          /\ ~NumberedNode(tree[i]) /\ tree[i].id = "intro"
          /\ NumberedNode(tree[j]) /\ node_numbers[tree[j].id] = <<1>>
    /\ \E i, j \in 1..Len(tree) :
          /\ i < j /\ tree[i].depth = 0 /\ tree[j].depth = 0
          /\ tree[i].id = ""
          /\ NumberedNode(tree[j])

\* C4: toc_entries has exactly one entry for each node that is no service
\* node, is TOC-eligible and lies at depth < max_levels, and no other entry.
TocNodes == {i \in 1..Len(tree) : TocEligible(tree[i]) /\ tree[i].depth < max_levels}

C4_TocEntriesExact ==
    Collected =>
        /\ Len(toc_entries) = Cardinality(TocNodes)
        /\ \A i \in TocNodes :
              \E k \in 1..Len(toc_entries) : toc_entries[k].section_id = tree[i].id
        /\ \A k \in 1..Len(toc_entries) : toc_entries[k].level < max_levels

\* C5: every TOC entry's anchor is the bookmark of exactly one emitted heading.
C5_EveryAnchorEmittedOnce ==
    pc = "done" =>
        \A e \in 1..Len(toc_entries) :
            Cardinality({k \in Headings : out[k].bookmark = toc_entries[e].id}) = 1

\* C6: the number shown in a node's TOC line equals the number prefixed to its
\* heading in the body.
C6_TocNumberIsHeadingNumber ==
    pc = "done" =>
        \A e \in 1..Len(toc_entries) :
            \A k \in Headings :
                out[k].bookmark = toc_entries[e].id =>
                    out[k].number = TocLine(toc_entries[e]).number

\* C7: with doc type 're' the intro node the collector processed is recorded
\* as numbered = false and in_toc = false, has the empty number and no TOC
\* entry, takes no value of the section counter, and its children are still
\* numbered.
IntroRecorded == doc_type = "re" /\ "intro" \in DOMAIN id_to_entry

RECURSIVE ImagesIn(_)
ImagesIn(blocks) ==
    IF blocks = <<>> THEN 0
    ELSE (IF Head(blocks).k = "image" THEN 1 ELSE 0) + ImagesIn(Tail(blocks))

RECURSIVE ImageBlocksUpTo(_)
ImageBlocksUpTo(i) ==
    IF i = 0 THEN 0 ELSE ImagesIn(tree[i].blocks) + ImageBlocksUpTo(i - 1)

ImageCaptions == SelectSeq(out, LAMBDA o : o.k = "image")

C8_FigureNumbersCountImages ==
    pc = "done" =>
        /\ image_counter = ImageBlocksUpTo(Len(tree))
        /\ Len(ImageCaptions) = ImageBlocksUpTo(Len(tree))
        /\ \A J \in 1..Len(ImageCaptions) : ImageCaptions[J].n = J

\* C9: every build starts from reset counters and an empty numbering / TOC
\* index, so the first table, the first figure and the first TOC anchor of
\* every build are numbered 1.
BuildStarts == pc = "collect" /\ ci = 1

TableCaptions == SelectSeq(out, LAMBDA o : o.k = "table")

C9_BuildsIndependent ==
    /\ BuildStarts =>
          /\ table_counter = 0 /\ image_counter = 0 /\ images = <<>>
          /\ toc_bookmark_counter = 0 /\ section_counter = 0
          /\ toc_entries = <<>> /\ id_to_entry = NoEntries /\ node_numbers = NoEntries
          /\ out = <<>>
    /\ ImageCaptions # <<>> => ImageCaptions[1].n = 1
    /\ TableCaptions # <<>> => TableCaptions[1].n = 1
    /\ toc_entries # <<>> => toc_entries[1].id = Anchor(toc_entries[1].section_id, "1")
    /\ pc = "done" => image_counter = Len(ImageCaptions) /\ table_counter = Len(TableCaptions)

C9_Witness ==
    /\ builds = 2
    /\ pc = "done"
    /\ ImageCaptions # <<>>
    /\ TableCaptions # <<>>
    /\ toc_entries # <<>>

\* C10: replace_placeholders never raises; a token whose path does not resolve
\* is replaced by the empty string.
C10_ResolverNeverRaises == pc = "resolved" => resolved.st = "ok"

\* C11: get_node_number answers the empty string for every id without a number
\* (unknown id, skipped node, unnumbered intro), and every node the collector
\* processes has an entry in id_to_entry, numbered or not, in the TOC or not.
RECURSIVE UnderRegular(_)
UnderRegular(p) ==
    p = 0 \/ (Regular(tree[p]) /\ UnderRegular(ParentFrom(tree, p, p - 1)))

Processed(i) == Regular(tree[i]) /\ UnderRegular(ParentFrom(tree, i, i - 1))

AskedIds == {tree[i].id : i \in 1..Len(tree)} \cup {"unknown"}

Unnumbered(id) ==
    \/ id \notin DOMAIN node_numbers
    \/ \A i \in 1..Len(tree) : tree[i].id = id => ~NumberedNode(tree[i])

C11_LookupsNeverFail ==
    Collected =>
        /\ \A id \in AskedIds : Unnumbered(id) => get_node_number(id) = <<>>
        /\ \A i \in 1..Len(tree) :
              Processed(i) =>
                  /\ tree[i].id \in DOMAIN id_to_entry
                  /\ id_to_entry[tree[i].id].section_id = tree[i].id
                  /\ id_to_entry[tree[i].id].numbered = NumberedNode(tree[i])

C11_Witness ==
    /\ pc = "done"
    /\ doc_type = "re"
    /\ "intro" \in DOMAIN id_to_entry
    /\ ~id_to_entry["intro"].in_toc
    /\ \E i \in 1..Len(tree) : tree[i].id = "title_page"
    /\ \E i \in 1..Len(tree) : Processed(i) /\ NumberedNode(tree[i])

\* C12: on a tree the validator accepts, the collector and the emission walk
\* complete without raising.
C12_AcceptedTreeNeverRaises == errors = <<>> => pc # "crashed"

\* C13: validate reports one missing-title error for every node whose name is
\* absent, null or blank and whose id is not "intro", at every depth, and
\* generate goes on exactly when the error list is empty, warnings or not.
Untitled(n) == ~Titled(n) /\ n.name.k # "num"

NeedsTitle == {i \in 1..Len(tree) : tree[i].id # "intro" /\ Untitled(tree[i])}

MissingTitleErrors == {k \in 1..Len(errors) : errors[k].kind = "missing_title"}

C13_MissingTitleReported ==
    pc # "new" =>
        /\ Cardinality(MissingTitleErrors) = Cardinality(NeedsTitle)
        /\ \A i \in NeedsTitle : \E k \in MissingTitleErrors : errors[k].id = tree[i].id
        /\ \A k \in MissingTitleErrors : \E i \in NeedsTitle : errors[k].id = tree[i].id
        /\ builds >= 1 => (pc = "aborted" <=> errors # <<>>)

C13_Witness ==
    /\ pc = "aborted"
    /\ warnings # <<>>
    /\ \E i \in NeedsTitle : tree[i].depth = 2 /\ tree[i].name.k = "null"
    /\ \E j \in 1..Len(tree) : tree[j].id = "intro" /\ Untitled(tree[j])
    /\ Cardinality(MissingTitleErrors) = 1

\* C14: an id that occurs n >= 2 times in the tree gets exactly n - 1
\* duplicate-id errors, wherever the occurrences are; nodes without id get none.
Occurrences(id) == Cardinality({i \in 1..Len(tree) : tree[i].id = id})

DuplicateErrors(id) ==
    Cardinality({k \in 1..Len(errors) :
                    errors[k].kind = "duplicate_id" /\ errors[k].id = id})

C14_DuplicateIdsReported ==
    pc # "new" =>
        /\ \A i \in 1..Len(tree) :
              DuplicateErrors(tree[i].id) =
                  IF tree[i].id = "" THEN 0 ELSE Occurrences(tree[i].id) - 1
        /\ \A k \in 1..Len(errors) :
              errors[k].kind = "duplicate_id" => Occurrences(errors[k].id) >= 2

C14_Witness ==
    /\ pc # "new"
    /\ Len(tree) = 3
    /\ tree[1].id = tree[3].id /\ tree[1].id \notin {"", tree[2].id}
    /\ tree[3].depth > 0
    /\ DuplicateErrors(tree[1].id) = 1

\* C15: whatever was validated before, the validator holds after a call exactly
\* the errors, warnings and ids a new validator reports for the tree, so a
\* second validation of the tree repeats the first.
FreshValidation ==
    WalkNodes(tree, TopLevel(tree), <<>>, 1,
              [errors |-> <<>>, warnings |-> <<>>, seen |-> {}])

C15_ValidationRepeats ==
    pc # "new" =>
        /\ errors = FreshValidation.errors
        /\ warnings = FreshValidation.warnings
        /\ seen_ids = FreshValidation.seen
        /\ builds >= 1 => (pc = "aborted" <=> FreshValidation.errors # <<>>)

C15_Witness ==
    /\ pc = "aborted"
    /\ builds = 1
    /\ errors # <<>>
    /\ warnings # <<>>
    /\ seen_ids # {}

\* C16: no step of a build (validation, collection, emission of nodes and
\* blocks) changes a node or a content block of the tree.
C16_TreeReadOnly == [][tree' = tree]_vars

\* C17: in an emitted list with a marker style every item but the last emitted
\* one ends in a semicolon, or in the ';', '.' or ':' it already ended in, and
\* the last emitted item ends in a full stop; alpha with first, second, third
\* gives "a) first;", "b) second;", "v) third.".
ListParas == SelectSeq(out, LAMBDA o : o.k = "para")

\* The items of the list block that resolve to a text, in array order.
EmittedItems ==
    SelectSeq(tree[1].blocks[1].items,
              LAMBDA item : \E k \in 1..Len(item) : item[k].t = "lit")

AlreadyEnded(item) == Last(item) \in {Lit(";"), Lit("."), Lit(":")}

EndsIn(x, y) == Len(x) >= Len(y) /\ SubSeq(x, Len(x) - Len(y) + 1, Len(x)) = y

PlainItems(n) == [k \in 1..n |-> <<Lit("first")>>]

C17_ListPunctuation ==
    pc = "done" =>
        /\ Len(ListParas) = Len(EmittedItems)
        /\ \A j \in 1..Len(ListParas) :
              IF j < Len(ListParas)
              THEN EndsIn(ListParas[j].x,
                          IF AlreadyEnded(EmittedItems[j]) THEN EmittedItems[j]
                          ELSE Append(EmittedItems[j], Lit(";")))
              ELSE Last(ListParas[j].x) = Lit(".")
        /\ (tree[1].blocks[1].style = "alpha" /\ tree[1].blocks[1].items = PlainItems(3)) =>
              [j \in 1..3 |-> ListParas[j].x] =
                  << <<Lit("a"), Lit(")"), Space, Lit("first"), Lit(";")>>,
                     <<Lit("b"), Lit(")"), Space, Lit("first"), Lit(";")>>,
                     <<Lit("v"), Lit(")"), Space, Lit("first"), Lit(".")>> >>

\* C18: in a build the generator that collects has max_levels equal to the
\* configured toc_settings.max_levels, so a processed TOC-eligible node has a
\* TOC entry exactly when its depth is below the configured value.
C18_ConfiguredDepthCap ==
    Collected =>
        /\ max_levels = max_toc_levels
        /\ \A i \in 1..Len(tree) :
              (Processed(i) /\ TocEligible(tree[i])) =>
                  (id_to_entry[tree[i].id].in_toc <=> tree[i].depth < max_toc_levels)

\* C19: a node the collector skips (placeholder id, no id or no title) gets no
\* number and no TOC entry, and its children are still collected: they are
\* numbered and have TOC entries when eligible.
SkippedNodes == {i \in 1..Len(tree) : ~Regular(tree[i])}

KidsOf(i) == {Children(tree, i)[c] : c \in 1..Len(Children(tree, i))}

C19_SkippedNodeChildrenCollected ==
    Collected =>
        \A i \in SkippedNodes :
            /\ tree[i].id \notin DOMAIN node_numbers
            /\ \A k \in 1..Len(toc_entries) : toc_entries[k].section_id # tree[i].id
            /\ \A j \in KidsOf(i) :
                  /\ NumberedNode(tree[j]) => tree[j].id \in DOMAIN node_numbers
                  /\ (TocEligible(tree[j]) /\ tree[j].depth < max_levels) =>
                        \E k \in 1..Len(toc_entries) :
                            toc_entries[k].section_id = tree[j].id

\* C20: the TOC lists the collected nodes in depth-first pre-order, children in
\* array order; the tree [s1, s2[s2a]] with max_levels = 2 is numbered "1", "2",
\* "2.1" and its TOC is exactly [s1, s2, s2a].
TocPositions ==
    SelectSeq([i \in 1..Len(tree) |-> i],
              LAMBDA i : Processed(i) /\ TocEligible(tree[i]) /\ tree[i].depth < max_levels)

TocIds == [k \in 1..Len(toc_entries) |-> toc_entries[k].section_id]

TocNumbers == [k \in 1..Len(toc_entries) |-> toc_entries[k].display_number]

ScenarioTree ==
    /\ Len(tree) = 3
    /\ <<tree[1].depth, tree[2].depth, tree[3].depth>> = <<0, 0, 1>>
    /\ \A i \in 1..3 : tree[i].id = OwnId(i) /\ Titled(tree[i])
    /\ max_levels = 2

C20_TocInPreOrder ==
    Collected =>
        /\ TocIds = [k \in 1..Len(TocPositions) |-> tree[TocPositions[k]].id]
        /\ ScenarioTree =>
              /\ TocIds = <<OwnId(1), OwnId(2), OwnId(3)>>
              /\ TocNumbers = <<<<"1">>, <<"2">>, <<"2", ".", "1">>>>
              /\ get_node_number(OwnId(1)) = <<"1">>
              /\ get_node_number(OwnId(2)) = <<"2">>
              /\ get_node_number(OwnId(3)) = <<"2", ".", "1">>

C20_Witness == Collected /\ ScenarioTree /\ Len(toc_entries) = 3

\* C21: a text block or list item that refers to the next figure shows the
\* number the first later image of the same block list receives, and the image
\* counter's value + 1 when no image follows in that list.
FigureRefs ==
    {k \in 1..Len(out) :
        out[k].k = "para" /\ \E j \in 1..Len(out[k].x) : out[k].x[j] = Lit("see")}

ShownIn(x) == x[(CHOOSE j \in 1..Len(x) : x[j] = Lit("see")) + 2]

ImagesBefore(k) == {m \in 1..(k - 1) : out[m].k = "image"}

CounterAt(k) ==
    IF ImagesBefore(k) = {} THEN 0
    ELSE out[CHOOSE m \in ImagesBefore(k) : \A r \in ImagesBefore(k) : r <= m].n

ListEnd(k) ==
    LET hs == {h \in (k + 1)..Len(out) : out[h].k = "heading"} IN
    IF hs = {} THEN Len(out) + 1 ELSE CHOOSE h \in hs : \A r \in hs : h <= r

LaterImages(k) == {m \in (k + 1)..(ListEnd(k) - 1) : out[m].k = "image"}

C21_NextFigureIsTheNextImage ==
    \A k \in FigureRefs :
        ShownIn(out[k].x) =
            NumLit(IF LaterImages(k) # {}
                   THEN out[CHOOSE m \in LaterImages(k) : \A r \in LaterImages(k) : m <= r].n
                   ELSE CounterAt(k) + 1)

C21_Witness ==
    /\ pc = "done"
    /\ \E k \in FigureRefs :
          /\ out[k].x[1] = Lit("-")
          /\ LaterImages(k) # {} /\ ImagesBefore(k) # {}
          /\ ShownIn(out[k].x) = NumLit(2)

\* C22: the heading of a node whose title refers to the next figure and whose
\* own block list holds an image shows, in place of the placeholder, the number
\* that first image receives.
FigureHeadings ==
    {k \in Headings :
        /\ Contains(tree[out[k].pos].name.x, ImageCounterNext)
        /\ \E b \in 1..Len(tree[out[k].pos].blocks) : tree[out[k].pos].blocks[b].k = "image"}

C22_TitleShowsFirstFigure ==
    \A k \in FigureHeadings :
        /\ LaterImages(k) # {}
        /\ out[k].x =
              ReplaceToken(tree[out[k].pos].name.x, ImageCounterNext,
                           out[CHOOSE m \in LaterImages(k) : \A r \in LaterImages(k) : m <= r].n)

\* C23: in the emitter a nested node is one level below its parent, except
\* that a point (a node with subpoints) under a subsection (a node with points)
\* is at level 2 whatever the level of the subsection, and a point under a
\* section (a node with subsections) is at level 1.
HeadingOf(i) == CHOOSE k \in Headings : out[k].pos = i

Emitted(i) == \E k \in Headings : out[k].pos = i

EmitterLevel(i) == out[HeadingOf(i)].level

C23_EmitterDepthRule ==
    \A i \in 1..Len(tree) :
        (tree[i].depth > 0 /\ Emitted(i) /\ Emitted(ParentFrom(tree, i, i - 1))) =>
            EmitterLevel(i) =
                LET p == ParentFrom(tree, i, i - 1) IN
                IF determine_node_type(tree[i]) = "point"
                   /\ determine_node_type(tree[p]) = "subsection" THEN 2
                ELSE IF determine_node_type(tree[i]) = "point"
                        /\ determine_node_type(tree[p]) = "section" THEN 1
                ELSE EmitterLevel(p) + 1

\* C24: a build validates, then collects the whole tree, then emits: nothing
\* is emitted when validation reports an error or while the collector runs,
\* and the TOC rendered at the table_of_contents node has a line for every
\* TOC-eligible node at depth < max_levels, the nodes after the
\* table_of_contents node included, and no other line.
TocRendered == \E k \in 1..Len(out) : out[k].k = "toc_title"

TocLineIds == {out[k].id : k \in {j \in 1..Len(out) : out[j].k = "toc_line"}}

C24_ValidateCollectEmit ==
    /\ (builds >= 1 /\ errors # <<>>) => (pc = "aborted" /\ out = <<>>)
    /\ pc = "collect" => out = <<>>
    /\ pc \in {"emit", "done"} => (errors = <<>> /\ ci > Len(tree))
    /\ TocRendered => TocLineIds = {tree[i].id : i \in TocNodes}

\* C25: when every error validate reports mentions intro the build is not
\* aborted, construction and generate both go on to produce output; when some
\* error does not mention it the build is aborted.
OnlyIntroErrors == \A k \in 1..Len(errors) : MentionsIntro(errors[k])

C25_IntroErrorsNotFatal ==
    pc # "new" =>
        IF OnlyIntroErrors THEN pc \notin {"rejected", "aborted"}
        ELSE pc \in {"rejected", "aborted"}

\* C26: validate reports a single-child warning, and no error for it, exactly
\* for the nodes at depth >= 2 (top-level nodes being at depth 0) that have
\* exactly one child.
SingleChildWarnings == {k \in 1..Len(warnings) : warnings[k].kind = "single_point"}

SingleChildNodes(d) ==
    {i \in 1..Len(tree) : tree[i].depth >= d /\ Len(Children(tree, i)) = 1}

C26_SingleChildWarning ==
    pc # "new" =>
        /\ Cardinality(SingleChildWarnings) = Cardinality(SingleChildNodes(2))
        /\ \A i \in SingleChildNodes(2) :
              \E k \in SingleChildWarnings : warnings[k].path = <<PathLabel(tree[i])>>
        /\ \A k \in 1..Len(errors) : errors[k].kind # "single_point"

\* C27: validate checks the blocks of every node: a list without items gives a
\* warning and no error; a block that is no mapping, a list whose value is no
\* mapping and a table whose value is no mapping give an error each, so that
\* the emitter never fails on a block of a tree the validator accepted.
BlocksOfKind(ks) ==
    UNION {{<<i, b>> : b \in {c \in 1..Len(tree[i].blocks) : tree[i].blocks[c].k \in ks}} :
              i \in 1..Len(tree)}

EmptyLists ==
    {ib \in BlocksOfKind({"list"}) : tree[ib[1]].blocks[ib[2]].items = <<>>}

MsgsOfKind(msgs, kind) == {k \in 1..Len(msgs) : msgs[k].kind = kind}

C27_BlockShapesChecked ==
    pc # "new" =>
        /\ Cardinality(MsgsOfKind(warnings, "empty_list")) = Cardinality(EmptyLists)
        /\ Cardinality(MsgsOfKind(errors, "bad_block")) =
              Cardinality(BlocksOfKind({"str", "scalar"}))
        /\ Cardinality(MsgsOfKind(errors, "bad_list")) =
              Cardinality(BlocksOfKind({"list_scalar"}))
        /\ Len(errors) = Cardinality(BlocksOfKind({"str", "scalar", "list_scalar",
                                                   "table_scalar"}))
        /\ errors = <<>> => pc # "crashed"

\* C28: after the collection of a tree with unique ids no two distinct ids have
\* the same non-empty number, whatever the document type.
UniqueIds ==
    \A i, j \in 1..Len(tree) : (i # j /\ tree[i].id # "") => tree[i].id # tree[j].id

C28_NumbersDistinct ==
    (Collected /\ UniqueIds) =>
        \A a, b \in DOMAIN node_numbers :
            (a # b /\ get_node_number(a) # <<>>) => get_node_number(a) # get_node_number(b)

\* C29: after the collection of a tree with unique ids the anchors stored in
\* id_to_entry are pairwise distinct, a TOC entry's anchor being toc_<id>_<n>
\* and any other node's toc_<id>_<id>; toc_bookmark_counter is the number of
\* TOC entries and the n-th TOC entry carries the suffix n.
C29_AnchorsDistinct ==
    (Collected /\ UniqueIds) =>
        /\ \A a, b \in DOMAIN id_to_entry :
              a # b => id_to_entry[a].id # id_to_entry[b].id
        /\ toc_bookmark_counter = Len(toc_entries)
        /\ \A n \in 1..Len(toc_entries) :
              toc_entries[n].id = Anchor(toc_entries[n].section_id, ToString(n))
        /\ \A a \in DOMAIN id_to_entry :
              ~id_to_entry[a].in_toc => id_to_entry[a].id = Anchor(a, a)

\* C30: in a block list the forward scan and the fallback agree: every text
\* block or list item that refers to the next figure shows image_counter + 1
\* as the counter stands when the block is processed, with or without a later
\* image, because the numbers pre-assigned in image_positions are the numbers
\* the images of the list receive.
NthImageAfter(h, n) ==
    CHOOSE m \in LaterImages(h) : Cardinality({r \in LaterImages(h) : r < m}) = n - 1

C30_ScanAgreesWithCounter ==
    /\ \A k \in FigureRefs : ShownIn(out[k].x) = NumLit(CounterAt(k) + 1)
    /\ \A h \in Headings :
          LET ip == ImagePositions(tree[out[h].pos].blocks, CounterAt(h)) IN
          /\ Cardinality(LaterImages(h)) = Cardinality(DOMAIN ip)
          /\ \A b \in DOMAIN ip :
                out[NthImageAfter(h, Cardinality({c \in DOMAIN ip : c <= b}))].n = ip[b]

C30_Witness ==
    /\ pc = "done"
    /\ \E k \in FigureRefs :
          LaterImages(k) = {} /\ ImagesBefore(k) # {} /\ ShownIn(out[k].x) = NumLit(2)
    /\ \E k \in FigureRefs : LaterImages(k) # {}

====
